---- MODULE Spec2Model ----
(***************************************************************************)
(* Model of the indexing and query orchestration of local-simple-rag.      *)
(*                                                                         *)
(*   Indexer (constructor, loadDocuments, splitDocuments, indexDocuments,  *)
(*   indexFolder) and queryDatabase.                                       *)
(*                                                                         *)
(* Every asynchronous dependency call (loader.load, textSplitter.split-    *)
(* Documents, vectorStore.addDocuments, similaritySearchWithScore,         *)
(* model.invoke) is a suspension point: one action runs the code up to the *)
(* await, and one action per outcome (resolves / rejects) runs the code    *)
(* from the await to the next one.                                         *)
(*                                                                         *)
(* Representation:                                                         *)
(*   - an optional JS value is a sequence: << >> is undefined / null,      *)
(*     <<v>> is the value v;                                               *)
(*   - a string is a sequence of text pieces, concatenation is \o;         *)
(*   - a similarity score is an integer number of hundredths (0.6 is 60);  *)
(*   - a thrown error is a sequence of pieces: <<e>> is the dependency's   *)
(*     error object e itself, <<"Failed to load documents", e>> is the new *)
(*     Error that loadDocuments builds around it.                          *)
(***************************************************************************)
EXTENDS Integers, Sequences, FiniteSets, TLC

\* ---------------------------------------------------------------- bounds
MaxChunks == 3
MaxDocs == 2
MaxParts == 2
MaxResults == 2
MaxIter == 4

\* ------------------------------------------------------ program constants
DefaultChunkSize == 500
DefaultChunkOverlap == 100
DefaultBatchSize == 10
SampleIndex == 10
TopK == 5
Threshold == 60

\* ----------------------------------------------------------------- inputs
Errors == {"E1", "E2"}
FolderPaths == {"./data"}

\* IndexerConfig as the caller passes it: every field optional.
ChunkSizeIn == {<< >>, <<200>>}
ChunkOverlapIn == {<< >>, <<0>>, <<50>>}
EnableLoggingIn == {<< >>, <<TRUE>>, <<FALSE>>}
BatchSizeIn == {<< >>, <<-1>>, <<0>>, <<1>>, <<2>>}

ConfigIn ==
  [chunkSize : ChunkSizeIn, chunkOverlap : ChunkOverlapIn,
   enableLogging : EnableLoggingIn, batchSize : BatchSizeIn]

NoConfig ==
  [chunkSize |-> << >>, chunkOverlap |-> << >>,
   enableLogging |-> << >>, batchSize |-> << >>]

\* A document as a file parser returns it; parts is the number of chunks the
\* text splitter cuts its content into.
RawDoc(k, p) == [source |-> k, parts |-> p, loadedFrom |-> "", folderPath |-> ""]

LoaderOutputs ==
  UNION {{[k \in 1..n |-> RawDoc(k, f[k])] : f \in [1..n -> 0..MaxParts]} : n \in 0..MaxDocs}

\* The chunk lists a caller hands to indexDocuments directly.
DirectChunk(j) == [source |-> 1, k |-> j, loadedFrom |-> "local_folder", folderPath |-> "./data"]

DirectChunks == {[j \in 1..n |-> DirectChunk(j)] : n \in 0..MaxChunks}

\* Scored results of the similarity search.
Contents == {<<"A">>, <<"B">>}
Scores == {59, 60, 90}
SourcesIn == {<< >>, <<"">>, <<"a.txt">>}
Candidates == [content : Contents, score : Scores, source : SourcesIn]

Min(a, b) == IF a < b THEN a ELSE b
Max(a, b) == IF a > b THEN a ELSE b

ResultLists == UNION {[1..n -> Candidates] : n \in 0..Min(TopK, MaxResults)}

Queries == {<<"Q">>}
Responses == {<<"R">>}

\* ------------------------------------------------------------------ state
VARIABLES
  pc,          \* position of the running top-level operation
  op,          \* the top-level operation: indexFolder, indexDocuments, queryDatabase
  hasStore,    \* Indexer.vectorStore is defined
  cfgIn,       \* the config argument of the constructor
  config,      \* Indexer.config
  folderPath,  \* argument of indexFolder / loadDocuments
  loaderOut,   \* what loader.load() resolved with
  splitArg,    \* argument of splitDocuments
  splitterOut, \* what splitDocuments returned
  indexArg,    \* argument of indexDocuments
  chunks,      \* indexDocuments: chunks
  i,           \* indexDocuments: loop index
  iter,        \* indexDocuments: loop iterations entered
  calls,       \* batches passed to vectorStore.addDocuments, in call order
  pending,     \* addDocuments calls issued and not yet settled
  store,       \* chunks the vector store has committed
  log,         \* logger output, one tag per line
  stages,      \* stage and dependency-call events, in order
  failed,      \* the dependency call that rejected
  depErr,      \* the error it rejected with
  result,      \* none / returned / raised: what the caller observes
  err,         \* the error raised to the caller
  retVal,      \* the value returned to the caller
  queryText,   \* argument of queryDatabase
  results,     \* what similaritySearchWithScore resolved with
  chatCalls    \* prompts passed to model.invoke

cfgVars == <<hasStore, cfgIn, config>>
folderVars == <<folderPath, loaderOut, splitArg, splitterOut>>
idxVars == <<indexArg, chunks, i, iter, calls, pending, store>>
failVars == <<failed, depErr>>
outVars == <<result, err, retVal>>
qVars == <<queryText, results, chatCalls>>

vars == <<pc, op, cfgVars, folderVars, idxVars, log, stages, failVars, outVars, qVars>>

Init ==
  /\ pc = "start"
  /\ op = "none"
  /\ hasStore = FALSE
  /\ cfgIn = NoConfig
  /\ config = NoConfig
  /\ folderPath = ""
  /\ loaderOut = << >>
  /\ splitArg = << >>
  /\ splitterOut = << >>
  /\ indexArg = << >>
  /\ chunks = << >>
  /\ i = 0
  /\ iter = 0
  /\ calls = << >>
  /\ pending = 0
  /\ store = << >>
  /\ log = << >>
  /\ stages = << >>
  /\ failed = "none"
  /\ depErr = ""
  /\ result = "none"
  /\ err = << >>
  /\ retVal = << >>
  /\ queryText = << >>
  /\ results = << >>
  /\ chatCalls = << >>

\* ------------------------------------------------------------ constructor
\* JS `v || d` on an optional number: undefined and 0 are falsy.
OrNumber(v, d) == IF v = << >> \/ v[1] = 0 THEN d ELSE v[1]

\* JS `v || d` on an optional boolean: undefined and false are falsy.
OrBoolean(v, d) == IF v = << >> \/ v[1] = FALSE THEN d ELSE v[1]

Resolve(c) ==
  [chunkSize |-> OrNumber(c.chunkSize, DefaultChunkSize),
   chunkOverlap |-> OrNumber(c.chunkOverlap, DefaultChunkOverlap),
   enableLogging |-> OrBoolean(c.enableLogging, TRUE),
   batchSize |-> OrNumber(c.batchSize, DefaultBatchSize)]

Constructor ==
  /\ pc = "start"
  /\ \E vs \in BOOLEAN, c \in ConfigIn :
       /\ hasStore' = vs
       /\ cfgIn' = c
       /\ config' = Resolve(c)
  /\ pc' = "constructed"
  /\ UNCHANGED <<op, folderVars, idxVars, log, stages, failVars, outVars, qVars>>

\* Indexer.log / logError / logDebug: one line when logging is enabled.
Log(lg, tag) == IF config.enableLogging THEN Append(lg, tag) ELSE lg

\* --------------------------------------------------------- indexDocuments
\* Array.prototype.slice(a, b) on integer arguments.
SliceFrom(n, a) == IF a < 0 THEN Max(n + a, 0) ELSE Min(a, n)

Slice(s, a, b) ==
  LET from == SliceFrom(Len(s), a)
      to == SliceFrom(Len(s), b)
  IN IF from < to THEN SubSeq(s, from + 1, to) ELSE << >>

\* LoopIter with `this.vectorStore.addDocuments(batch)`, no optional chaining:
\* the call on an undefined store throws a TypeError, which the catch block logs
\* and rethrows.
LoopIterStrict(chs, idx, lg, st, out) ==
  IF idx < Len(chs)
  THEN /\ i' = idx
       /\ iter' = iter + 1
       /\ stages' = st
       /\ IF hasStore
          THEN /\ calls' = Append(calls, Slice(chs, idx, idx + config.batchSize))
               /\ pending' = out + 1
               /\ log' = Log(lg, "batch")
               /\ pc' = "await_add"
               /\ UNCHANGED outVars
          ELSE /\ calls' = calls
               /\ pending' = out
               /\ log' = Log(Log(lg, "batch"), "batch_error")
               /\ pc' = "done"
               /\ result' = "raised"
               /\ err' = <<"TypeError">>
               /\ retVal' = retVal
  ELSE /\ i' = idx
       /\ iter' = iter
       /\ log' = Log(lg, "success")
       /\ stages' = Append(st, "index_done")
       /\ calls' = calls
       /\ pending' = out
       /\ pc' = "done"
       /\ result' = "returned"
       /\ UNCHANGED <<err, retVal>>

\* The for loop from its test at index idx to the next await or to the return;
\* out is the number of addDocuments calls outstanding when the test runs.
LoopIter(chs, idx, lg, st, out) ==
  IF idx < Len(chs)
  THEN /\ i' = idx
       /\ iter' = iter + 1
       /\ log' = Log(lg, "batch")
       /\ stages' = st
       /\ IF hasStore
          THEN /\ calls' = Append(calls, Slice(chs, idx, idx + config.batchSize))
               /\ pending' = out + 1
          ELSE /\ calls' = calls
               /\ pending' = out
       /\ pc' = "await_add"
       /\ UNCHANGED outVars
  ELSE /\ i' = idx
       /\ iter' = iter
       /\ log' = Log(lg, "success")
       /\ stages' = Append(st, "index_done")
       /\ calls' = calls
       /\ pending' = out
       /\ pc' = "done"
       /\ result' = "returned"
       /\ UNCHANGED <<err, retVal>>

\* indexDocuments(chs) from its entry to its first await or to its return.
IndexDocumentsBody(chs, lg, st) ==
  /\ indexArg' = chs
  /\ chunks' = chs
  /\ IF Len(chs) = 0
     THEN /\ log' = Log(lg, "no_chunks")
          /\ stages' = st \o <<"index", "index_done">>
          /\ pc' = "done"
          /\ result' = "returned"
          /\ UNCHANGED <<i, iter, calls, pending, err, retVal>>
     ELSE LoopIter(chs, 0, Log(lg, "saving"), Append(st, "index"), pending)

IndexDocuments ==
  /\ pc = "constructed"
  /\ op' = "indexDocuments"
  /\ \E chs \in DirectChunks : IndexDocumentsBody(chs, log, stages)
  /\ UNCHANGED <<cfgVars, folderVars, store, failVars, qVars>>

\* `await this.vectorStore?.addDocuments(batch)` resolved: i += batchSize and
\* the loop goes on. The guard caps the loop that a negative step never leaves.
AddDocumentsResolves ==
  /\ pc = "await_add"
  /\ pending = 1
  /\ config.batchSize > 0 \/ iter < MaxIter
  /\ store' = store \o calls[Len(calls)]
  /\ LoopIter(chunks, i + config.batchSize, log, stages, pending - 1)
  /\ UNCHANGED <<op, cfgVars, folderVars, indexArg, chunks, failVars, qVars>>

\* Without a vector store the optional call yields undefined and the await
\* resumes with nothing called.
AwaitUndefinedResumes ==
  /\ pc = "await_add"
  /\ pending = 0
  /\ config.batchSize > 0 \/ iter < MaxIter
  /\ LoopIter(chunks, i + config.batchSize, log, stages, pending)
  /\ UNCHANGED <<op, cfgVars, folderVars, indexArg, chunks, store, failVars, qVars>>

\* AddDocumentsRejects with a catch block that logs and does not rethrow: the
\* loop goes on with the next batch.
AddDocumentsRejectsSwallowed ==
  /\ pc = "await_add"
  /\ pending = 1
  /\ \E e \in Errors :
       /\ failed' = "add"
       /\ depErr' = e
  /\ LoopIter(chunks, i + config.batchSize, Log(log, "batch_error"), stages, pending - 1)
  /\ UNCHANGED <<op, cfgVars, folderVars, indexArg, chunks, store, qVars>>

\* addDocuments rejected: the catch block logs and rethrows the same error.
\* A rejected call commits nothing to the store.
AddDocumentsRejects ==
  /\ pc = "await_add"
  /\ pending = 1
  /\ \E e \in Errors :
       /\ failed' = "add"
       /\ depErr' = e
       /\ err' = <<e>>
  /\ pending' = pending - 1
  /\ log' = Log(log, "batch_error")
  /\ result' = "raised"
  /\ pc' = "done"
  /\ UNCHANGED <<op, cfgVars, folderVars, indexArg, chunks, i, iter, calls, store,
                 stages, retVal, qVars>>

\* ------------------------------------------------------------ indexFolder
\* indexFolder(path) calls loadDocuments(path), which awaits loader.load().
IndexFolder ==
  /\ pc = "constructed"
  /\ op' = "indexFolder"
  /\ \E p \in FolderPaths : folderPath' = p
  /\ stages' = Append(stages, "load")
  /\ pc' = "await_load"
  /\ UNCHANGED <<cfgVars, loaderOut, splitArg, splitterOut, idxVars, log, failVars,
                 outVars, qVars>>

\* documents.forEach: merge loadedFrom and folderPath into every metadata.
Tag(docs, path) ==
  [k \in 1..Len(docs) |-> [docs[k] EXCEPT !.loadedFrom = "local_folder", !.folderPath = path]]

\* LoadResolves with an indexFolder that returns early when the folder holds
\* no document, without calling splitDocuments and indexDocuments.
LoadResolvesSkipsEmpty ==
  /\ pc = "await_load"
  /\ \E docs \in LoaderOutputs :
       /\ loaderOut' = docs
       /\ splitArg' = Tag(docs, folderPath)
       /\ IF Len(docs) = 0
          THEN /\ log' = Log(log, "loaded")
               /\ stages' = Append(stages, "load_done")
               /\ pc' = "done"
               /\ result' = "returned"
               /\ UNCHANGED <<splitterOut, idxVars, err, retVal>>
          ELSE /\ splitterOut' = splitterOut
               /\ log' = Log(Log(log, "loaded"), "splitting")
               /\ stages' = stages \o <<"load_done", "split">>
               /\ pc' = "await_split"
               /\ UNCHANGED <<idxVars, outVars>>
  /\ UNCHANGED <<op, cfgVars, folderPath, failVars, qVars>>

\* loader.load() resolved: loadDocuments tags and returns the documents and
\* indexFolder passes them to splitDocuments, which returns [] at once for no
\* documents (and indexDocuments is then called with []), and otherwise
\* awaits textSplitter.splitDocuments.
LoadResolves ==
  /\ pc = "await_load"
  /\ \E docs \in LoaderOutputs :
       /\ loaderOut' = docs
       /\ splitArg' = Tag(docs, folderPath)
       /\ IF Len(docs) = 0
          THEN /\ splitterOut' = << >>
               /\ IndexDocumentsBody(<< >>,
                     Log(Log(log, "loaded"), "no_documents"),
                     stages \o <<"load_done", "split", "split_done">>)
               /\ UNCHANGED store
          ELSE /\ splitterOut' = splitterOut
               /\ log' = Log(Log(log, "loaded"), "splitting")
               /\ stages' = stages \o <<"load_done", "split">>
               /\ pc' = "await_split"
               /\ UNCHANGED <<idxVars, outVars>>
  /\ UNCHANGED <<op, cfgVars, folderPath, failVars, qVars>>

\* LoadRejects with a catch block that logs and returns no documents instead
\* of throwing: the pipeline goes on with an empty list.
LoadRejectsSwallowed ==
  /\ pc = "await_load"
  /\ \E e \in Errors :
       /\ failed' = "load"
       /\ depErr' = e
  /\ splitterOut' = << >>
  /\ IndexDocumentsBody(<< >>, Log(Log(log, "load_error"), "no_documents"),
        stages \o <<"split", "split_done">>)
  /\ UNCHANGED <<op, cfgVars, folderPath, loaderOut, splitArg, store, qVars>>

\* loader.load() rejected: the catch block logs and throws a new Error that
\* carries the folder path and the cause's text.
LoadRejects ==
  /\ pc = "await_load"
  /\ \E e \in Errors :
       /\ failed' = "load"
       /\ depErr' = e
       /\ err' = <<"Failed to load documents for folder", folderPath, e>>
  /\ log' = Log(log, "load_error")
  /\ result' = "raised"
  /\ pc' = "done"
  /\ UNCHANGED <<op, cfgVars, folderVars, idxVars, stages, retVal, qVars>>

\* The chunks of one document: parts pieces, each with the parent's metadata.
ChunksOf(doc) ==
  [j \in 1..doc.parts |->
     [source |-> doc.source, k |-> j, loadedFrom |-> doc.loadedFrom,
      folderPath |-> doc.folderPath]]

RECURSIVE SplitAll(_)
SplitAll(docs) ==
  IF docs = << >> THEN << >> ELSE ChunksOf(Head(docs)) \o SplitAll(Tail(docs))

\* The two debug lines of the sample chunk, when there are more than 10 chunks.
LogSample(lg, chs) ==
  IF config.enableLogging /\ Len(chs) > SampleIndex
  THEN Log(Log(lg, "sample_chunk"), "sample_metadata")
  ELSE lg

\* textSplitter.splitDocuments resolved: splitDocuments logs and returns the
\* chunks, and indexFolder passes them to indexDocuments.
SplitResolves ==
  /\ pc = "await_split"
  /\ splitterOut' = SplitAll(splitArg)
  /\ IndexDocumentsBody(SplitAll(splitArg),
        LogSample(Log(log, "split_into"), SplitAll(splitArg)),
        Append(stages, "split_done"))
  /\ UNCHANGED <<op, cfgVars, folderPath, loaderOut, splitArg, store, failVars, qVars>>

\* textSplitter.splitDocuments rejected: nothing catches it.
SplitRejects ==
  /\ pc = "await_split"
  /\ \E e \in Errors :
       /\ failed' = "split"
       /\ depErr' = e
       /\ err' = <<e>>
  /\ result' = "raised"
  /\ pc' = "done"
  /\ UNCHANGED <<op, cfgVars, folderVars, idxVars, log, stages, retVal, qVars>>

\* ---------------------------------------------------------- queryDatabase
\* GateFails as a per-candidate test: the gate fails only when no candidate
\* reaches the threshold.
GateFailsAll(rs) == Len(rs) = 0 \/ \A k \in 1..Len(rs) : rs[k].score < Threshold

\* results.length === 0 || (results[0] && results[0][1] < 0.6)
GateFails(rs) == Len(rs) = 0 \/ rs[1].score < Threshold

Delimiter == <<"\n\n---\n\n">>

\* results.map(([doc, _score]) => doc.pageContent).join("\n\n---\n\n")
RECURSIVE Join(_)
Join(rs) ==
  IF rs = << >> THEN << >>
  ELSE IF Len(rs) = 1 THEN rs[1].content
  ELSE rs[1].content \o Delimiter \o Join(Tail(rs))

\* ContextText that keeps only the candidates that reach the threshold.
ContextTextFiltered(rs) == Join(SelectSeq(rs, LAMBDA r : r.score >= Threshold))

ContextText(rs) == Join(rs)

\* PROMPT_TEMPLATE with {context} and {question} filled in. The values are
\* inserted as they are; whatever the prompt library puts around the filled
\* template (a role label) is not part of this code and is left out.
Format(context, question) ==
  <<"\nAnswer the question based only on the following context:\n\n">>
    \o context
    \o <<"\n\n---\n\nAnswer the question based on the above context: ">>
    \o question
    \o <<"\n">>

\* JS `doc.metadata.source || null`: undefined and "" are falsy.
OrNull(v) == IF v = << >> \/ v[1] = "" THEN << >> ELSE v

\* results.map(([doc, _score]) => doc.metadata.source || null)
SourcesOf(rs) == [k \in 1..Len(rs) |-> OrNull(rs[k].source)]

QueryDatabase ==
  /\ pc = "start"
  /\ op' = "queryDatabase"
  /\ \E q \in Queries : queryText' = q
  /\ stages' = Append(stages, "search")
  /\ pc' = "await_search"
  /\ UNCHANGED <<cfgVars, folderVars, idxVars, log, failVars, outVars, results, chatCalls>>

\* similaritySearchWithScore resolved: the gate, then the prompt and the call
\* of the chat model.
SearchResolves ==
  /\ pc = "await_search"
  /\ \E rs \in ResultLists :
       /\ results' = rs
       /\ IF GateFails(rs)
          THEN /\ log' = log \o <<"debug_results", "error_no_match">>
               /\ stages' = Append(stages, "search_done")
               /\ chatCalls' = chatCalls
               /\ result' = "returned"
               /\ retVal' = << >>
               /\ pc' = "done"
          ELSE /\ log' = Append(log, "debug_results")
               /\ stages' = stages \o <<"search_done", "chat">>
               /\ chatCalls' = Append(chatCalls, Format(ContextText(rs), queryText))
               /\ result' = result
               /\ retVal' = retVal
               /\ pc' = "await_chat"
  /\ UNCHANGED <<op, cfgVars, folderVars, idxVars, failVars, err, queryText>>

\* similaritySearchWithScore rejected: nothing catches it.
SearchRejects ==
  /\ pc = "await_search"
  /\ \E e \in Errors :
       /\ failed' = "search"
       /\ depErr' = e
       /\ err' = <<e>>
  /\ result' = "raised"
  /\ pc' = "done"
  /\ UNCHANGED <<op, cfgVars, folderVars, idxVars, log, stages, retVal, qVars>>

\* model.invoke resolved: the response text and the sources are returned.
ChatResolves ==
  /\ pc = "await_chat"
  /\ \E r \in Responses :
       retVal' = <<[response |-> r, sources |-> SourcesOf(results)]>>
  /\ log' = Append(log, "info_response")
  /\ stages' = Append(stages, "chat_done")
  /\ result' = "returned"
  /\ pc' = "done"
  /\ UNCHANGED <<op, cfgVars, folderVars, idxVars, failVars, err, qVars>>

\* model.invoke rejected: nothing catches it.
ChatRejects ==
  /\ pc = "await_chat"
  /\ \E e \in Errors :
       /\ failed' = "chat"
       /\ depErr' = e
       /\ err' = <<e>>
  /\ result' = "raised"
  /\ pc' = "done"
  /\ UNCHANGED <<op, cfgVars, folderVars, idxVars, log, stages, retVal, qVars>>

\* ---------------------------------------------------------- specification
Next ==
  \/ Constructor
  \/ IndexDocuments
  \/ AddDocumentsResolves
  \/ AwaitUndefinedResumes
  \/ AddDocumentsRejects
  \/ IndexFolder
  \/ LoadResolves
  \/ LoadRejects
  \/ SplitResolves
  \/ SplitRejects
  \/ QueryDatabase
  \/ SearchResolves
  \/ SearchRejects
  \/ ChatResolves
  \/ ChatRejects

Spec == Init /\ [][Next]_vars

\* ------------------------------------------------------------- properties
IndexerOps == {"indexDocuments", "indexFolder"}

\* ceil(n / b) for an integer b other than 0.
CeilDiv(n, b) == IF b > 0 THEN (n + b - 1) \div b ELSE -(n \div (-b))

Count(tag, s) == Cardinality({k \in DOMAIN s : s[k] = tag})

RECURSIVE Flatten(_)
Flatten(ss) == IF ss = << >> THEN << >> ELSE Head(ss) \o Flatten(Tail(ss))

IsPrefix(s, t) == Len(s) <= Len(t) /\ s = SubSeq(t, 1, Len(s))

FolderStages == <<"load", "load_done", "split", "split_done", "index", "index_done">>

\* C1: indexDocuments given N chunks and resolved batch size B makes, when no
\* add-documents call fails, exactly ceil(N/B) calls; call j carries the
\* chunks at indices (j-1)*B .. min(j*B, N)-1, so at most B chunks; at most one
\* call is outstanding at any time.
C1_BatchCalls ==
  (op \in IndexerOps /\ "index" \in {stages[k] : k \in DOMAIN stages}) =>
    LET N == Len(chunks)
        B == config.batchSize
    IN /\ pending <= 1
       /\ \A j \in 1..Len(calls) :
            /\ Len(calls[j]) <= B
            /\ calls[j] = SubSeq(chunks, (j - 1) * B + 1, Min(j * B, N))
       /\ (result = "returned" /\ failed = "none") => Len(calls) = CeilDiv(N, B)

\* The statement of C1 for an Indexer that has a vector store and a positive
\* resolved batch size.
C1_WithStorePositiveBatch == (hasStore /\ config.batchSize >= 1) => C1_BatchCalls

\* C2: once the add-documents call for batch k has failed, the caller gets
\* that same error, no further add-documents call is made, and the store
\* holds exactly the chunks of the calls 1..k-1.
C2_FailedState ==
  failed = "add" =>
    /\ result = "raised"
    /\ err = <<depErr>>
    /\ pending = 0
    /\ calls # << >>
    /\ store = Flatten(SubSeq(calls, 1, Len(calls) - 1))

C2_BatchFailureAborts ==
  /\ []C2_FailedState
  /\ [][failed = "add" => (calls' = calls /\ store' = store /\ result' = result /\ err' = err)]_vars

C2_Witness ==
  /\ failed = "add"
  /\ Len(calls) >= 2
  /\ Len(store) >= 1
  /\ Len(store) + Len(calls[Len(calls)]) < Len(chunks)

\* C3: when the similarity search returns no result, or a first result
\* scored below 0.6, queryDatabase returns null and the chat model is never
\* invoked, whatever the scores of the other results.
C3_GateReturnsNull ==
  (op = "queryDatabase" /\ Count("search_done", stages) > 0
     /\ (Len(results) = 0 \/ results[1].score < 60)) =>
    /\ result = "returned"
    /\ retVal = << >>
    /\ chatCalls = << >>
    /\ Count("chat", stages) = 0

C3_Witness ==
  /\ op = "queryDatabase"
  /\ result = "returned"
  /\ Len(results) >= 2
  /\ results[1].score < 60
  /\ results[2].score >= 60

\* C4: when the first candidate's score is at least 0.6 and the chat call
\* succeeds, the result is not null, sources has the length of the candidate
\* list, and sources[k] is candidate k's metadata.source, null exactly when
\* the candidate has no source field.
C4_SourcesMirrorCandidates ==
  (op = "queryDatabase" /\ Count("chat_done", stages) > 0
     /\ Len(results) >= 1 /\ results[1].score >= 60) =>
    /\ result = "returned"
    /\ retVal # << >>
    /\ Len(retVal[1].sources) = Len(results)
    /\ \A k \in 1..Len(results) : retVal[1].sources[k] = results[k].source

\* The text pieces of the contents of the first k candidates.
RECURSIVE ContentLen(_, _)
ContentLen(rs, k) == IF k = 0 THEN 0 ELSE Len(rs[k].content) + ContentLen(rs, k - 1)

\* C5: the prompt sent to the chat model holds, after the template's head,
\* the content of every returned candidate in the order returned, with the
\* delimiter between neighbours, and then the template's middle part, the
\* query text and the template's tail; no candidate is dropped.
C5_ContextHoldsAllCandidates ==
  chatCalls # << >> =>
    LET p == chatCalls[1]
        n == Len(results)
        start(k) == 1 + ContentLen(results, k - 1) + (k - 1)
        ctxEnd == 1 + ContentLen(results, n) + (n - 1)
    IN /\ Len(chatCalls) = 1
       /\ n >= 1
       /\ Len(p) = ctxEnd + 1 + Len(queryText) + 1
       /\ p[1] = "\nAnswer the question based only on the following context:\n\n"
       /\ \A k \in 1..n :
            /\ SubSeq(p, start(k) + 1, start(k) + Len(results[k].content)) = results[k].content
            /\ k < n => p[start(k) + Len(results[k].content) + 1] = "\n\n---\n\n"
       /\ p[ctxEnd + 1] = "\n\n---\n\nAnswer the question based on the above context: "
       /\ SubSeq(p, ctxEnd + 2, ctxEnd + 1 + Len(queryText)) = queryText
       /\ p[Len(p)] = "\n"

C5_Witness ==
  /\ chatCalls # << >>
  /\ Len(results) >= 2
  /\ results[2].score < 60
  /\ results[1].content # results[2].content

\* C6: indexFolder runs loadDocuments, splitDocuments and indexDocuments in
\* this order, each after the previous one has completed and on the previous
\* one's output, and a run that returns has run all three.
C6_StagesInOrder ==
  op = "indexFolder" =>
    /\ IsPrefix(stages, FolderStages)
    /\ Count("split", stages) > 0 =>
         /\ Len(splitArg) = Len(loaderOut)
         /\ \A k \in 1..Len(loaderOut) :
              /\ splitArg[k].source = loaderOut[k].source
              /\ splitArg[k].parts = loaderOut[k].parts
              /\ splitArg[k].folderPath = folderPath
    /\ Count("index", stages) > 0 => indexArg = splitterOut
    /\ result = "returned" => stages = FolderStages

C6_Witness ==
  /\ op = "indexFolder"
  /\ result = "returned"
  /\ Len(indexArg) >= 2
  /\ Len(store) >= 2

\* C7: each field of the resolved configuration is the caller's value when
\* the caller set the field and the default (500, 100, true, 10) otherwise.
C7_ConfigKeepsCallerValues ==
  (pc # "start" /\ op # "queryDatabase") =>
    /\ config.chunkSize = IF cfgIn.chunkSize = << >> THEN 500 ELSE cfgIn.chunkSize[1]
    /\ config.chunkOverlap = IF cfgIn.chunkOverlap = << >> THEN 100 ELSE cfgIn.chunkOverlap[1]
    /\ config.enableLogging = IF cfgIn.enableLogging = << >> THEN TRUE ELSE cfgIn.enableLogging[1]
    /\ config.batchSize = IF cfgIn.batchSize = << >> THEN 10 ELSE cfgIn.batchSize[1]

\* C8: a failed dependency call is made once and aborts the operation with
\* an error for the caller: after a load failure nothing is split or added,
\* after a search failure the chat model is not invoked, after a chat failure
\* no result is returned.
C8_FailureAbortsNoRetry ==
  /\ failed # "none" => (result = "raised" /\ err # << >> /\ err[Len(err)] = depErr)
  /\ failed = "load" =>
       /\ Count("load", stages) = 1
       /\ Count("split", stages) = 0
       /\ Count("index", stages) = 0
       /\ calls = << >>
  /\ failed = "split" =>
       /\ Count("split", stages) = 1
       /\ Count("index", stages) = 0
       /\ calls = << >>
  /\ failed = "add" =>
       /\ err = <<depErr>>
       /\ iter = Len(calls)
  /\ failed = "search" =>
       /\ err = <<depErr>>
       /\ Count("search", stages) = 1
       /\ chatCalls = << >>
  /\ failed = "chat" =>
       /\ err = <<depErr>>
       /\ retVal = << >>
       /\ Count("search", stages) = 1
       /\ Len(chatCalls) = 1

C8_Witness ==
  /\ failed = "load"
  /\ result = "raised"
  /\ op = "indexFolder"

\* C9: an Indexer without a vector store makes no add-documents call and
\* raises no error of its own; a run over N > 0 chunks that returns has
\* walked every batch and ended on the success path with nothing stored.
C9_NoStoreSilentSuccess ==
  (op \in IndexerOps /\ ~hasStore) =>
    /\ calls = << >>
    /\ store = << >>
    /\ pending = 0
    /\ failed # "add"
    /\ failed = "none" => result # "raised"
    /\ (result = "returned" /\ Len(chunks) > 0) =>
         /\ iter = CeilDiv(Len(chunks), config.batchSize)
         /\ stages[Len(stages)] = "index_done"
         /\ config.enableLogging => log[Len(log)] = "success"

C9_Witness ==
  /\ op \in IndexerOps
  /\ ~hasStore
  /\ result = "returned"
  /\ Len(chunks) >= 2
  /\ iter >= 2

\* C10: the batch start index strictly increases on every loop iteration of
\* indexDocuments, for every batch size a caller can pass.
C10_IndexIncreases ==
  [][(pc = "await_add" /\ i' # i) => i' > i]_vars
====
